---- MODULE Spec2Model ----
(***************************************************************************)
(* Model of runner.py: the campaign loop of CommandExecutor.runCommand,    *)
(* the polling supervisor __runCommandOnce, the asynchronous               *)
(* SignalHandler, the wrapped child process and the script entry point.    *)
(*                                                                         *)
(* Python values are encoded as sequences: None is <<>> and the integer n  *)
(* is <<n>>, so that "is None", "!= 0" and dictionary keys behave as in    *)
(* the source.  The return-code dictionary is a sequence of entries in     *)
(* insertion order, which is the order Python iterates a dict in.          *)
(***************************************************************************)
EXTENDS Integers, Sequences, FiniteSets, TLC

\* ---- bounds of the model ------------------------------------------------
MaxRunCount == 3
MaxFailedCount == 2
MaxExitCode == 2
MaxArgs == 3

\* ---- Python values ------------------------------------------------------
None == <<>>

Code(n) == <<n>>

\* an exception of the given class, as opposed to None
Exception(class) == <<class>>

ExitCodes == 0..MaxExitCode

CatchSignals == {"SIGINT", "SIGQUIT", "SIGTERM"}

VARIABLES
    args,              \* CommandOptions.args: sys.argv, a sequence of tokens
    activeOptions,     \* CommandOptions.activeOptions
    activeOptionsWithVariables, \* CommandOptions.activeOptionsWithVariables
    wrappedCommand,    \* CommandOptions.wrappedCommand (None or tokens)
    stderr,            \* the messages written to sys.stderr, in order
    parseSuccessful,   \* CommandOptions.parseSuccessful
    totalRunCount,     \* CommandExecutor.__totalRunCount
    failedCount,       \* CommandExecutor.__failedCount (None or Code(k))
    sysTrace,          \* CommandExecutor.__sysTrace
    callTrace,         \* CommandExecutor.__callTrace
    logTrace,          \* CommandExecutor.__logTrace
    debugMode,         \* CommandExecutor.__debugMode
    receivedSignal,    \* SignalHandler.receivedSignal
    signal,            \* SignalHandler.signal (None until a signal arrived)
    pc,                \* position of the main thread of control
    returnCodes,       \* runCommand: returnCodes, in insertion order
    currentRunCount,   \* runCommand: currentRunCount
    failures,          \* runCommand: failures
    currentCode,       \* runCommand: currentCode
    exitCode,          \* __runCommandOnce: exitCode
    exitCodeBound,     \* whether the local exitCode has been assigned
    command,           \* __runCommandOnce: command, the composed token list
    popenCommands,     \* the command lines given to Popen, in order
    echoed,            \* the command lines shown by the debug message, in order
    sampled,           \* a sample was written since the last liveness check
    raisedError,       \* the exception that left runCommand, None if none
    statsFileOpen,     \* __runCommandOnce: statsFile is open
    child,             \* the Popen child: "none", "running", "exited", "reaped"
    childCode,         \* the exit status the child terminated with
    rootExists,        \* the timestamped root directory exists on disk
    runDirs,           \* indices of the run directories existing under it
    stdout,            \* kinds of notices printed so far
    launched,          \* number of Popen calls made so far
    admitted,          \* number of iterations the while condition let in
    runResults,        \* what __runCommandOnce returned, per run
    result,            \* value returned by runCommand
    exitStatus         \* exit status of the interpreter process

vars == <<args, activeOptions, activeOptionsWithVariables, wrappedCommand,
          stderr, command, popenCommands, echoed, sampled, raisedError,
          parseSuccessful, totalRunCount, failedCount, sysTrace, callTrace,
          logTrace, debugMode, receivedSignal, signal, pc, returnCodes,
          currentRunCount, failures, currentCode, exitCode, exitCodeBound,
          statsFileOpen, child, childCode, rootExists, runDirs, stdout,
          launched, admitted, runResults, result, exitStatus>>

parseVars == <<args, activeOptions, activeOptionsWithVariables,
               wrappedCommand, stderr>>

runVars == <<command, popenCommands, echoed, sampled>>

options == <<parseSuccessful, totalRunCount, failedCount, sysTrace,
             callTrace, logTrace, debugMode>>

sigVars == <<receivedSignal, signal>>

loopVars == <<returnCodes, currentRunCount, failures, currentCode>>

onceVars == <<exitCode, exitCodeBound, statsFileOpen>>

childVars == <<child, childCode>>

diskVars == <<rootExists, runDirs>>

histVars == <<launched, admitted, runResults>>

\* mutant: debug mode sets up logging as well
setupLoggingWithDebug == sysTrace \/ callTrace \/ logTrace \/ debugMode

\* __setOptions: logging is set up when any of the three traces is on
setupLogging == sysTrace \/ callTrace \/ logTrace

\* ---- CommandOptions ----------------------------------------------------
\* A token of argv is a string, modelled as the sequence of its characters.

COUNT == <<"-", "c">>

FAILED_COUNT ==
    <<"-", "-", "f", "a", "i", "l", "e", "d", "-", "c", "o", "u", "n", "t">>

SYS_TRACE == <<"-", "-", "s", "y", "s", "-", "t", "r", "a", "c", "e">>

CALL_TRACE == <<"-", "-", "c", "a", "l", "l", "-", "t", "r", "a", "c", "e">>

LOG_TRACE == <<"-", "-", "l", "o", "g", "-", "t", "r", "a", "c", "e">>

DEBUG == <<"-", "-", "d", "e", "b", "u", "g">>

HELP == <<"-", "-", "h", "e", "l", "p">>

allOptions ==
    {COUNT, FAILED_COUNT, SYS_TRACE, CALL_TRACE, LOG_TRACE, DEBUG, HELP}

optionsWithVariables == {COUNT, FAILED_COUNT}

\* a message written to sys.stderr: the template and what it is formatted with
Message(template, values) == [template |-> template, values |-> values]

\* the decimal digits, in order of their value
DigitChars == <<"0", "1", "2", "3", "4", "5", "6", "7", "8", "9">>

\* str.isnumeric over the characters of the model: a non-empty string of
\* digits
isnumeric(value) ==
    /\ Len(value) > 0
    /\ \A k \in 1..Len(value) : \E d \in 1..Len(DigitChars) : DigitChars[d] = value[k]

\* the value of a digit character
DigitValue(c) == (CHOOSE d \in 1..Len(DigitChars) : DigitChars[d] = c) - 1

\* int(value) for a string of digits
RECURSIVE int(_)
int(value) ==
    IF value = <<>>
    THEN 0
    ELSE 10 * int(SubSeq(value, 1, Len(value) - 1)) + DigitValue(value[Len(value)])

\* mutant: no token is taken to start with the prefix, so the check of
\* line 146 never fires
startswithNever(arg, prefix) == FALSE

\* arg.startswith(prefix) for a one-character prefix
startswith(arg, prefix) == Len(arg) > 0 /\ arg[1] = prefix

\* mutant: '--help' is looked for in the first argument only
checkIfHelpFirstArgument(a) == Len(a) >= 2 /\ a[2] = HELP

\* __checkIfHelp, line 109: '--help' is anywhere in args (the messages of
\* lines 110-111 are written by parseArgs)
checkIfHelp(a) == \E k \in 1..Len(a) : a[k] = HELP

\* mutant: the value 0 is let through (< 0 for < 1)
getNumberFromArgsZeroAllowed(a, index) ==
    IF index > Len(a)
    THEN [value |-> None,
          err |-> <<Message("MISSING_INT_MSG", <<a[index - 1]>>)>>]
    ELSE IF ~isnumeric(a[index])
    THEN [value |-> None,
          err |-> <<Message("MISSING_INT_MSG", <<a[index - 1]>>)>>]
    ELSE IF int(a[index]) < 0
    THEN [value |-> None,
          err |-> <<Message("LARGER_INT_MSG", <<a[index], a[index - 1]>>)>>]
    ELSE [value |-> Code(int(a[index])), err |-> <<>>]

\* __getNumberFromArgs: the int at position index (positions count from 1
\* here), or None with the message written
getNumberFromArgs(a, index) ==
    IF index > Len(a)
    THEN [value |-> None,
          err |-> <<Message("MISSING_INT_MSG", <<a[index - 1]>>)>>]
    ELSE IF ~isnumeric(a[index])
    THEN [value |-> None,
          err |-> <<Message("MISSING_INT_MSG", <<a[index - 1]>>)>>]
    ELSE IF int(a[index]) < 1
    THEN [value |-> None,
          err |-> <<Message("LARGER_INT_MSG", <<a[index], a[index - 1]>>)>>]
    ELSE [value |-> Code(int(a[index])), err |-> <<>>]

\* __getOptionVariable
getOptionVariable(a, index) ==
    IF a[index] \in {COUNT, FAILED_COUNT}
    THEN getNumberFromArgs(a, index + 1)
    ELSE [value |-> None, err |-> <<>>]

\* dictionary assignment d[key] = value
SetItem(d, key, value) ==
    [k \in DOMAIN d \cup {key} |-> IF k = key THEN value ELSE d[k]]

\* CommandOptions.__init__, lines 64-68: the fields before parsing
NotParsed ==
    [parseSuccessful |-> FALSE,
     activeOptions |-> {},
     activeOptionsWithVariables |-> <<>>,
     wrappedCommand |-> None,
     stderr |-> <<>>]

\* mutant: the value of an integer-valued option is not skipped (line 142
\* left out)
RECURSIVE parseLoopValueNotSkipped(_, _, _)
parseLoopValueNotSkipped(a, i, co) ==
    IF i > Len(a)
    THEN IF co.wrappedCommand = None
         THEN [co EXCEPT !.parseSuccessful = FALSE,
                         !.stderr = Append(@, Message("NO_WRAPPED_COMMAND_MSG", <<>>))]
         ELSE [co EXCEPT !.parseSuccessful = TRUE]
    ELSE IF a[i] \in allOptions
    THEN IF a[i] \in optionsWithVariables
         THEN LET variable == getOptionVariable(a, i)
              IN  IF variable.value = None
                  THEN [co EXCEPT !.parseSuccessful = FALSE,
                                  !.stderr = @ \o variable.err]
                  ELSE parseLoopValueNotSkipped(a, i + 1,
                           [co EXCEPT !.activeOptionsWithVariables =
                                          SetItem(@, a[i], variable.value[1])])
         ELSE parseLoopValueNotSkipped(a, i + 1,
                  [co EXCEPT !.activeOptions = @ \cup {a[i]}])
    ELSE IF startswith(a[i], "-")
    THEN [co EXCEPT !.parseSuccessful = FALSE,
                    !.stderr = Append(@, Message("UNRECOGNIZED_OPTION_MSG", <<a[i]>>))]
    ELSE [co EXCEPT !.parseSuccessful = TRUE,
                    !.wrappedCommand = SubSeq(a, i, Len(a))]

\* __parseArgs, lines 133-157: the while loop from position i, and what
\* follows it
RECURSIVE parseLoop(_, _, _)
parseLoop(a, i, co) ==
    IF i > Len(a)
    THEN IF co.wrappedCommand = None
         THEN [co EXCEPT !.parseSuccessful = FALSE,
                         !.stderr = Append(@, Message("NO_WRAPPED_COMMAND_MSG", <<>>))]
         ELSE [co EXCEPT !.parseSuccessful = TRUE]
    ELSE IF a[i] \in allOptions
    THEN IF a[i] \in optionsWithVariables
         THEN LET variable == getOptionVariable(a, i)
              IN  IF variable.value = None
                  THEN [co EXCEPT !.parseSuccessful = FALSE,
                                  !.stderr = @ \o variable.err]
                  ELSE parseLoop(a, i + 2,
                           [co EXCEPT !.activeOptionsWithVariables =
                                          SetItem(@, a[i], variable.value[1])])
         ELSE parseLoop(a, i + 1,
                  [co EXCEPT !.activeOptions = @ \cup {a[i]}])
    ELSE IF startswith(a[i], "-")
    THEN [co EXCEPT !.parseSuccessful = FALSE,
                    !.stderr = Append(@, Message("UNRECOGNIZED_OPTION_MSG", <<a[i]>>))]
    ELSE [co EXCEPT !.parseSuccessful = TRUE,
                    !.wrappedCommand = SubSeq(a, i, Len(a))]

\* __parseArgs: help first, then an argv of the file name alone succeeds,
\* then the loop; position 1 is the file name
parseArgs(a) ==
    IF checkIfHelp(a)
    THEN [NotParsed EXCEPT !.stderr = <<Message("HELP_MESSAGE", <<>>),
                                        Message("HELP_EXAMPLE", <<>>)>>]
    ELSE IF Len(a) <= 1
    THEN [NotParsed EXCEPT !.parseSuccessful = TRUE]
    ELSE parseLoop(a, 2, NotParsed)

\* ---- helpers for the return-code dictionary ------------------------------

\* "currentCode not in returnCodes"
HasKey(codes, key) == \E i \in 1..Len(codes) : codes[i].key = key

\* mutant: a key that is present is set to 1 again (= for += at line 332)
CountReturnCodeWithoutIncrement(codes, key) ==
    IF ~HasKey(codes, key)
    THEN Append(codes, [key |-> key, amount |-> 1])
    ELSE [i \in 1..Len(codes) |->
            IF codes[i].key = key
            THEN [key |-> key, amount |-> 1]
            ELSE codes[i]]

\* runCommand, lines 329-332: count one more occurrence of key; a new key is
\* inserted after the existing ones
CountReturnCode(codes, key) ==
    IF ~HasKey(codes, key)
    THEN Append(codes, [key |-> key, amount |-> 1])
    ELSE [i \in 1..Len(codes) |->
            IF codes[i].key = key
            THEN [key |-> key, amount |-> codes[i].amount + 1]
            ELSE codes[i]]

\* mutant: the leader's count is never stored (line 497 left out), so every
\* entry replaces the leader
RECURSIVE HighestOccurrenceCountNotStored(_, _, _, _)
HighestOccurrenceCountNotStored(codes, i, highestOccurrenceCode, highestOccurrenceCount) ==
    IF i > Len(codes)
    THEN highestOccurrenceCode
    ELSE IF codes[i].amount >= highestOccurrenceCount
         THEN HighestOccurrenceCountNotStored(codes, i + 1, codes[i].key,
                                              highestOccurrenceCount)
         ELSE HighestOccurrenceCountNotStored(codes, i + 1,
                                              highestOccurrenceCode,
                                              highestOccurrenceCount)

\* mutant: the comparison of line 495 is strict, so the earliest of the
\* most frequent codes is kept
RECURSIVE HighestOccurrenceStrict(_, _, _, _)
HighestOccurrenceStrict(codes, i, highestOccurrenceCode, highestOccurrenceCount) ==
    IF i > Len(codes)
    THEN highestOccurrenceCode
    ELSE IF codes[i].amount > highestOccurrenceCount
         THEN HighestOccurrenceStrict(codes, i + 1, codes[i].key,
                                      codes[i].amount)
         ELSE HighestOccurrenceStrict(codes, i + 1, highestOccurrenceCode,
                                      highestOccurrenceCount)

\* the loop body of __handleReturnCodeOccurrences: entry i replaces the
\* leader when its amount is >= the highest amount seen so far
RECURSIVE HighestOccurrence(_, _, _, _)
HighestOccurrence(codes, i, highestOccurrenceCode, highestOccurrenceCount) ==
    IF i > Len(codes)
    THEN highestOccurrenceCode
    ELSE IF codes[i].amount >= highestOccurrenceCount
         THEN HighestOccurrence(codes, i + 1, codes[i].key, codes[i].amount)
         ELSE HighestOccurrence(codes, i + 1, highestOccurrenceCode,
                                highestOccurrenceCount)

\* __handleReturnCodeOccurrences: starts from code 0 with count -1
handleReturnCodeOccurrences(codes) == HighestOccurrence(codes, 1, Code(0), -1)

\* ---- command lines ----------------------------------------------------

\* str(n) for n >= 0
RECURSIVE str(_)
str(n) ==
    IF n < 10
    THEN <<DigitChars[n + 1]>>
    ELSE str(n \div 10) \o <<DigitChars[(n % 10) + 1]>>

\* the file name of the script, args[0]
RunnerPy == <<"r", "u", "n", "n", "e", "r", ".", "p", "y">>

\* a wrapped command of one token
WrappedCmd == <<"c", "m", "d">>

\* a token that starts with '-' and is no option
UnknownOption == <<"-", "x">>

\* the wrapped command of the campaigns, "cmd -c 2": its second and third
\* token would be an option and its value if the runner read them
WrappedCommand == <<WrappedCmd, COUNT, <<"2">>>>

\* test_runner.py, buildCommandOptions: the command line of a campaign with
\* the given wrapped command, count, failed count and flags
buildCommandOptions(wrapped, count, failedCountArg, flags) ==
    <<RunnerPy>>
    \o <<COUNT, str(count)>>
    \o (IF failedCountArg = None
        THEN <<>>
        ELSE <<FAILED_COUNT, str(failedCountArg[1])>>)
    \o (IF SYS_TRACE \in flags THEN <<SYS_TRACE>> ELSE <<>>)
    \o (IF CALL_TRACE \in flags THEN <<CALL_TRACE>> ELSE <<>>)
    \o (IF LOG_TRACE \in flags THEN <<LOG_TRACE>> ELSE <<>>)
    \o (IF DEBUG \in flags THEN <<DEBUG>> ELSE <<>>)
    \o wrapped

\* the command lines of the campaigns: every count, failed count and set of
\* flags within the bounds, and one command line that does not parse
CampaignArgvs ==
    {buildCommandOptions(WrappedCommand, count, failedCountArg, flags) :
        count \in 1..MaxRunCount,
        failedCountArg \in {None} \cup {Code(k) : k \in 1..MaxFailedCount},
        flags \in SUBSET {SYS_TRACE, CALL_TRACE, LOG_TRACE, DEBUG}}
    \cup {<<RunnerPy, FAILED_COUNT>>}

\* the tokens of the short command lines
Tokens ==
    {COUNT, FAILED_COUNT, SYS_TRACE, DEBUG, HELP, <<"0">>, <<"2">>,
     WrappedCmd, UnknownOption}

\* every command line of at most MaxArgs tokens after the file name
ShortArgvs ==
    {<<RunnerPy>> \o t : t \in UNION {[1..n -> Tokens] : n \in 0..MaxArgs}}

\* ---- initial state ------------------------------------------------------
\* The state when main is entered with sys.argv = argv: nothing is parsed,
\* the fields of CommandExecutor have the defaults of lines 275-282, the
\* SignalHandler of the default argument (line 253) is installed.
InitWith(argv) ==
    /\ args = argv
    /\ activeOptions = {}
    /\ activeOptionsWithVariables = <<>>
    /\ wrappedCommand = None
    /\ stderr = <<>>
    /\ parseSuccessful = FALSE
    /\ totalRunCount = 1
    /\ failedCount = None
    /\ sysTrace = FALSE
    /\ callTrace = FALSE
    /\ logTrace = FALSE
    /\ debugMode = FALSE
    /\ receivedSignal = FALSE
    /\ signal = None
    /\ pc = "CommandOptions"
    /\ returnCodes = <<>>
    /\ currentRunCount = 0
    /\ failures = 0
    /\ currentCode = None
    /\ exitCode = None
    /\ exitCodeBound = FALSE
    /\ statsFileOpen = FALSE
    /\ child = "none"
    /\ childCode = None
    /\ rootExists = FALSE
    /\ runDirs = {}
    /\ stdout = {}
    /\ launched = 0
    /\ admitted = 0
    /\ runResults = <<>>
    /\ result = None
    /\ exitStatus = None
    /\ command = <<>>
    /\ popenCommands = <<>>
    /\ echoed = <<>>
    /\ sampled = FALSE
    /\ raisedError = None

\* the campaigns: main is entered with the command line of a campaign
Init == \E argv \in CampaignArgvs : InitWith(argv)

\* the short command lines: main is entered with any short command line
InitParse == \E argv \in ShortArgvs : InitWith(argv)

\* ---- the environment ----------------------------------------------------

\* SignalHandler.handler: one of the caught signals is delivered
handler ==
    /\ pc # "exited"
    /\ \E signum \in CatchSignals :
         /\ signal' = Code(signum)
         /\ receivedSignal' = TRUE
    /\ UNCHANGED <<parseVars, runVars, raisedError, options, pc, loopVars,
                   onceVars, childVars, diskVars, stdout, histVars, result,
                   exitStatus>>

\* the wrapped command terminates on its own with some exit status; it stays
\* unreaped until the supervisor polls it
ChildExit ==
    /\ child = "running"
    /\ \E code \in ExitCodes :
         /\ child' = "exited"
         /\ childCode' = Code(code)
    /\ UNCHANGED <<parseVars, runVars, raisedError, options, sigVars, pc,
                   loopVars, onceVars, diskVars, stdout, histVars, result,
                   exitStatus>>

\* ---- main and runCommand ------------------------------------------------

\* main, line 522, and CommandOptions.__init__: the command line is parsed
CommandOptions ==
    /\ pc = "CommandOptions"
    /\ LET co == parseArgs(args)
       IN  /\ parseSuccessful' = co.parseSuccessful
           /\ activeOptions' = co.activeOptions
           /\ activeOptionsWithVariables' = co.activeOptionsWithVariables
           /\ wrappedCommand' = co.wrappedCommand
           /\ stderr' = stderr \o co.stderr
    /\ pc' = "main"
    /\ UNCHANGED <<args, runVars, raisedError, totalRunCount, failedCount,
                   sysTrace, callTrace, logTrace, debugMode, sigVars, loopVars,
                   onceVars, childVars, diskVars, stdout, histVars, result,
                   exitStatus>>

\* main, lines 523-526: a failed parse returns None; else the
\* CommandExecutor is built from getParsedCommand() (lines 262-285) and
\* __setOptions sets its fields from the parsed options
main ==
    /\ pc = "main"
    /\ IF ~parseSuccessful
       THEN /\ result' = None
            /\ pc' = "returned"
            /\ UNCHANGED <<totalRunCount, failedCount, sysTrace, callTrace,
                           logTrace, debugMode>>
       ELSE /\ result' = result
            /\ pc' = "runCommand"
            /\ totalRunCount' =
                 IF COUNT \in DOMAIN activeOptionsWithVariables
                 THEN activeOptionsWithVariables[COUNT]
                 ELSE totalRunCount
            /\ failedCount' =
                 IF FAILED_COUNT \in DOMAIN activeOptionsWithVariables
                 THEN Code(activeOptionsWithVariables[FAILED_COUNT])
                 ELSE failedCount
            /\ sysTrace' = IF SYS_TRACE \in activeOptions THEN TRUE ELSE sysTrace
            /\ callTrace' = IF CALL_TRACE \in activeOptions THEN TRUE ELSE callTrace
            /\ logTrace' = IF LOG_TRACE \in activeOptions THEN TRUE ELSE logTrace
            /\ debugMode' = IF DEBUG \in activeOptions THEN TRUE ELSE debugMode
    /\ UNCHANGED <<parseVars, runVars, raisedError, parseSuccessful, sigVars,
                   loopVars, onceVars, childVars, diskVars, stdout, histVars,
                   exitStatus>>

\* runCommand, lines 294-302: the root directory is created before the loop
runCommandStart ==
    /\ pc = "runCommand"
    /\ stdout' = IF debugMode THEN stdout \cup {"debugActivated"} ELSE stdout
    /\ rootExists' = IF setupLogging THEN TRUE ELSE rootExists
    /\ returnCodes' = <<>>
    /\ currentRunCount' = 0
    /\ failures' = 0
    /\ pc' = "while"
    /\ UNCHANGED <<parseVars, runVars, raisedError, options, sigVars,
                   currentCode, onceVars, childVars, runDirs, histVars, result,
                   exitStatus>>

\* runCommand, lines 297-298, and __createRootDirectories: os.makedirs
\* raises (no permission, or the directory of this second exists) and
\* nothing catches it
createRootDirectoriesRaises ==
    /\ pc = "runCommand"
    /\ setupLogging
    /\ stdout' = IF debugMode THEN stdout \cup {"debugActivated"} ELSE stdout
    /\ raisedError' = Exception("OSError")
    /\ pc' = "raised"
    /\ UNCHANGED <<parseVars, runVars, options, sigVars, loopVars, onceVars,
                   childVars, diskVars, histVars, result, exitStatus>>

\* mutant: a failed os.mkdir is passed over and the run goes on without its
\* directory
createDirectoryRaisesIgnored ==
    /\ pc = "createDirectory"
    /\ setupLogging
    /\ stdout' = stdout \cup {"runCount"}
    /\ pc' = "openStatsFile"
    /\ UNCHANGED <<parseVars, runVars, raisedError, options, sigVars,
                   loopVars, onceVars, childVars, diskVars, histVars, result,
                   exitStatus>>

\* runCommand, lines 308-310, and __createDirectory: os.mkdir raises, before
\* the banner of lines 312-313, and nothing catches it
createDirectoryRaises ==
    /\ pc = "createDirectory"
    /\ setupLogging
    /\ raisedError' = Exception("OSError")
    /\ pc' = "raised"
    /\ UNCHANGED <<parseVars, runVars, options, sigVars, loopVars, onceVars,
                   childVars, diskVars, stdout, histVars, result, exitStatus>>

\* mutant: the while condition does not look at the signal flag
whileConditionIgnoresSignal ==
    /\ pc = "while"
    /\ IF currentRunCount < totalRunCount
       THEN /\ pc' = "createDirectory"
            /\ admitted' = admitted + 1
       ELSE /\ pc' = "afterLoop"
            /\ admitted' = admitted
    /\ UNCHANGED <<parseVars, runVars, raisedError, options, sigVars, loopVars,
                   onceVars, childVars, diskVars, stdout, launched, runResults,
                   result, exitStatus>>

\* mutant: the while condition is off by one (<= for <)
whileConditionOffByOne ==
    /\ pc = "while"
    /\ IF currentRunCount <= totalRunCount /\ ~receivedSignal
       THEN /\ pc' = "createDirectory"
            /\ admitted' = admitted + 1
       ELSE /\ pc' = "afterLoop"
            /\ admitted' = admitted
    /\ UNCHANGED <<parseVars, runVars, raisedError, options, sigVars, loopVars,
                   onceVars, childVars, diskVars, stdout, launched, runResults,
                   result, exitStatus>>

\* runCommand, lines 304-305: the while condition
whileCondition ==
    /\ pc = "while"
    /\ IF currentRunCount < totalRunCount /\ ~receivedSignal
       THEN /\ pc' = "createDirectory"
            /\ admitted' = admitted + 1
       ELSE /\ pc' = "afterLoop"
            /\ admitted' = admitted
    /\ UNCHANGED <<parseVars, runVars, raisedError, options, sigVars, loopVars,
                   onceVars, childVars, diskVars, stdout, launched, runResults,
                   result, exitStatus>>

\* runCommand, lines 307-313: the run directory and the banner
createDirectory ==
    /\ pc = "createDirectory"
    /\ runDirs' = IF setupLogging
                  THEN runDirs \cup {currentRunCount + 1}
                  ELSE runDirs
    /\ stdout' = stdout \cup {"runCount"}
    /\ pc' = "openStatsFile"
    /\ UNCHANGED <<parseVars, runVars, raisedError, options, sigVars, loopVars,
                   onceVars, childVars, rootExists, histVars, result,
                   exitStatus>>

\* ---- __runCommandOnce ---------------------------------------------------

\* __runCommandOnce, lines 421-430: the sys-trace file is opened and seeded
openStatsFile ==
    /\ pc = "openStatsFile"
    /\ statsFileOpen' = IF sysTrace THEN TRUE ELSE statsFileOpen
    /\ exitCode' = None
    /\ exitCodeBound' = FALSE
    /\ pc' = "composeCommand"
    /\ UNCHANGED <<parseVars, runVars, raisedError, options, sigVars, loopVars,
                   childVars, diskVars, stdout, histVars, result, exitStatus>>

\* __createRootDirectories, line 511: rootLogFolder/<date and time>/
rootPath == <<"runnerLogs", "/", "%y-%m-%d_%H:%M:%S", "/">>

\* runCommand, line 309: the directory of run number n under the root
subPath(n) == rootPath \o str(n)

\* os.path.join(logPath, filename)
join(logPath, filename) == logPath \o <<"/", filename>>

\* ' '.join(tokens): the tokens with one blank between neighbours
RECURSIVE JoinWithBlanks(_)
JoinWithBlanks(tokens) ==
    IF tokens = <<>>
    THEN <<>>
    ELSE IF Len(tokens) = 1
    THEN tokens[1]
    ELSE tokens[1] \o <<" ">> \o JoinWithBlanks(SubSeq(tokens, 2, Len(tokens)))

\* mutant: the tracer is given the file of the log trace
composedCommandTracerToLogFile(call, log, logPath, wrapped) ==
    (IF call
     THEN <<<<"strace">>, <<"-o">>, join(logPath, "logTrace.txt")>>
     ELSE <<>>)
    \o wrapped
    \o (IF log
        THEN <<<<"2>&1">>, <<"|">>, <<"tee">>, join(logPath, "logTrace.txt"),
               <<";(exit ${PIPESTATUS})">>>>
        ELSE <<>>)

\* __runCommandOnce, lines 421 and 432-446: the tracer in front when call
\* tracing is on, the wrapped command, the tee pipeline and the exit status
\* of the wrapped command behind when log tracing is on
composedCommand(call, log, logPath, wrapped) ==
    (IF call
     THEN <<<<"strace">>, <<"-o">>, join(logPath, "callTrace.txt")>>
     ELSE <<>>)
    \o wrapped
    \o (IF log
        THEN <<<<"2>&1">>, <<"|">>, <<"tee">>, join(logPath, "logTrace.txt"),
               <<";(exit ${PIPESTATUS})">>>>
        ELSE <<>>)

\* __runCommandOnce, lines 421 and 432-446: extend(None) raises TypeError
\* when there is no wrapped command
composeCommand ==
    /\ pc = "composeCommand"
    /\ IF wrappedCommand = None
       THEN /\ raisedError' = Exception("TypeError")
            /\ command' = command
            /\ pc' = "raised"
       ELSE /\ raisedError' = raisedError
            /\ command' = composedCommand(callTrace, logTrace,
                                          subPath(currentRunCount + 1),
                                          wrappedCommand)
            /\ pc' = "debugEcho"
    /\ UNCHANGED <<parseVars, popenCommands, echoed, sampled, options, sigVars,
                   loopVars, onceVars, childVars, diskVars, stdout, histVars,
                   result, exitStatus>>

\* __runSubprocessCommand, lines 405-406, called with ' '.join(command)
\* (line 448): the debug message shows the command line
debugEcho ==
    /\ pc = "debugEcho"
    /\ IF debugMode
       THEN /\ echoed' = Append(echoed, JoinWithBlanks(command))
            /\ stdout' = stdout \cup {"debug"}
       ELSE /\ echoed' = echoed
            /\ stdout' = stdout
    /\ pc' = "runSubprocessCommand"
    /\ UNCHANGED <<parseVars, command, popenCommands, sampled, raisedError,
                   options, sigVars, loopVars, onceVars, childVars, diskVars,
                   histVars, result, exitStatus>>

\* __runSubprocessCommand, line 407: the child is started with the command
\* line
runSubprocessCommand ==
    /\ pc = "runSubprocessCommand"
    /\ popenCommands' = Append(popenCommands, JoinWithBlanks(command))
    /\ child' = "running"
    /\ childCode' = None
    /\ launched' = launched + 1
    /\ pc' = "pollCondition"
    /\ UNCHANGED <<parseVars, command, echoed, sampled, raisedError, options,
                   sigVars, loopVars, onceVars, diskVars, stdout, admitted,
                   runResults, result, exitStatus>>

\* mutant: the polling loop does not look at the signal flag
pollConditionIgnoresSignal ==
    /\ pc = "pollCondition"
    /\ pc' = "poll"
    /\ UNCHANGED <<parseVars, runVars, raisedError, options, sigVars,
                   loopVars, onceVars, childVars, diskVars, stdout, histVars,
                   result, exitStatus>>

\* __runCommandOnce, line 450: the condition of the polling loop
pollCondition ==
    /\ pc = "pollCondition"
    /\ pc' = IF ~receivedSignal THEN "poll" ELSE "closeStatsFile"
    /\ UNCHANGED <<parseVars, runVars, raisedError, options, sigVars, loopVars,
                   onceVars, childVars, diskVars, stdout, histVars, result,
                   exitStatus>>

\* mutant: the break of line 455 is missing, the tick goes on after the
\* child was seen terminated
pollWithoutBreak ==
    /\ pc = "poll"
    /\ exitCodeBound' = TRUE
    /\ sampled' = FALSE
    /\ IF child = "exited"
       THEN /\ exitCode' = childCode
            /\ child' = "reaped"
       ELSE /\ exitCode' = IF child = "reaped" THEN childCode ELSE None
            /\ child' = child
    /\ pc' = "gatherSystemStats"
    /\ UNCHANGED <<parseVars, command, popenCommands, echoed, raisedError,
                   options, sigVars, loopVars, statsFileOpen, childCode,
                   diskVars, stdout, histVars, result, exitStatus>>

\* __runCommandOnce, lines 451-455: p.poll() reaps a terminated child and
\* yields its status, else None; p.kill() on a reaped child does nothing
poll ==
    /\ pc = "poll"
    /\ exitCodeBound' = TRUE
    /\ sampled' = FALSE
    /\ IF child = "exited"
       THEN /\ exitCode' = childCode
            /\ child' = "reaped"
            /\ pc' = "closeStatsFile"
       ELSE /\ exitCode' = None
            /\ child' = child
            /\ pc' = "gatherSystemStats"
    /\ UNCHANGED <<parseVars, command, popenCommands, echoed, raisedError,
                   options, sigVars, loopVars, statsFileOpen, childCode,
                   diskVars, stdout, histVars, result, exitStatus>>

\* __runCommandOnce, lines 457-458, and __gatherSystemStats: one sample is
\* appended to the sys-trace file when sys tracing is on
gatherSystemStats ==
    /\ pc = "gatherSystemStats"
    /\ sampled' = IF sysTrace THEN TRUE ELSE sampled
    /\ pc' = "sleep"
    /\ UNCHANGED <<parseVars, command, popenCommands, echoed, raisedError,
                   options, sigVars, loopVars, onceVars, childVars, diskVars,
                   stdout, histVars, result, exitStatus>>

\* __gatherSystemStats, lines 377-382, when the child has terminated since
\* the liveness check: psutil raises NoSuchProcess (ZombieProcess is one)
\* for a process that is gone, and nothing catches it
gatherSystemStatsRaises ==
    /\ pc = "gatherSystemStats"
    /\ sysTrace
    /\ child = "exited"
    /\ raisedError' = Exception("NoSuchProcess")
    /\ pc' = "raised"
    /\ UNCHANGED <<parseVars, runVars, options, sigVars, loopVars, onceVars,
                   childVars, diskVars, stdout, histVars, result, exitStatus>>

\* __runCommandOnce, line 460: time.sleep(pollInterval)
sleep ==
    /\ pc = "sleep"
    /\ pc' = "pollCondition"
    /\ UNCHANGED <<parseVars, runVars, raisedError, options, sigVars, loopVars,
                   onceVars, childVars, diskVars, stdout, histVars, result,
                   exitStatus>>

\* __runCommandOnce, lines 462-465: the file is closed and exitCode is
\* returned; reading the local before any assignment raises
\* UnboundLocalError, which nothing catches
closeStatsFile ==
    /\ pc = "closeStatsFile"
    /\ statsFileOpen' = IF sysTrace THEN FALSE ELSE statsFileOpen
    /\ IF exitCodeBound
       THEN /\ currentCode' = exitCode
            /\ runResults' = Append(runResults, exitCode)
            /\ raisedError' = raisedError
            /\ pc' = "signalCheck"
       ELSE /\ currentCode' = currentCode
            /\ runResults' = runResults
            /\ raisedError' = Exception("UnboundLocalError")
            /\ pc' = "raised"
    /\ UNCHANGED <<parseVars, runVars, options, sigVars, returnCodes,
                   currentRunCount, failures, exitCode, exitCodeBound,
                   childVars, diskVars, stdout, launched, admitted, result,
                   exitStatus>>

\* ---- the rest of the loop body of runCommand ------------------------------

\* mutant: the check of lines 317-320 is missing, the result of a cancelled
\* run goes on to the bookkeeping
signalCheckMissing ==
    /\ pc = "signalCheck"
    /\ pc' = "bookkeeping"
    /\ UNCHANGED <<parseVars, runVars, raisedError, options, sigVars, loopVars,
                   onceVars, childVars, diskVars, stdout, histVars, result,
                   exitStatus>>

\* runCommand, lines 317-320: a signal seen after the run ends the loop
signalCheck ==
    /\ pc = "signalCheck"
    /\ IF receivedSignal
       THEN /\ stdout' = stdout \cup {"signal"}
            /\ pc' = "afterLoop"
       ELSE /\ stdout' = stdout
            /\ pc' = "bookkeeping"
    /\ UNCHANGED <<parseVars, runVars, raisedError, options, sigVars, loopVars,
                   onceVars, childVars, diskVars, histVars, result,
                   exitStatus>>

\* mutant: the failed count has to be exceeded (> for >=)
failedCountExceeded(n) == failedCount # None /\ n > failedCount[1]

\* runCommand, lines 334-335: the failed count is set and was reached
failedCountReached(n) == failedCount # None /\ n >= failedCount[1]

\* runCommand, lines 322-339: failures, pruning of the run directory, the
\* tally, the failed-count check and the increment of the run count
bookkeeping ==
    /\ pc = "bookkeeping"
    /\ failures' = IF currentCode # Code(0) THEN failures + 1 ELSE failures
    /\ runDirs' = IF currentCode = Code(0) /\ setupLogging
                  THEN runDirs \ {currentRunCount + 1}
                  ELSE runDirs
    /\ returnCodes' = CountReturnCode(returnCodes, currentCode)
    /\ IF failedCountReached(failures')
       THEN /\ stdout' = stdout \cup {"failedCount"}
            /\ currentRunCount' = currentRunCount
            /\ pc' = "afterLoop"
       ELSE /\ stdout' = stdout
            /\ currentRunCount' = currentRunCount + 1
            /\ pc' = "while"
    /\ UNCHANGED <<parseVars, runVars, raisedError, options, sigVars,
                   currentCode, onceVars, childVars, rootExists, histVars,
                   result, exitStatus>>

\* runCommand, lines 341-344: the root is removed when nothing failed, and
\* the most frequent code is returned to main, which returns it
afterLoop ==
    /\ pc = "afterLoop"
    /\ IF failures = 0 /\ setupLogging
       THEN /\ rootExists' = FALSE
            /\ runDirs' = {}
       ELSE /\ rootExists' = rootExists
            /\ runDirs' = runDirs
    /\ stdout' = stdout \cup {"summary"}
    /\ result' = handleReturnCodeOccurrences(returnCodes)
    /\ pc' = "returned"
    /\ UNCHANGED <<parseVars, runVars, raisedError, options, sigVars, loopVars,
                   onceVars, childVars, histVars, exitStatus>>

\* ---- the end of the script ------------------------------------------------

\* lines 530-531: the script calls main() and drops its value; the
\* interpreter then ends with status 0
scriptEnd ==
    /\ pc = "returned"
    /\ exitStatus' = Code(0)
    /\ pc' = "exited"
    /\ UNCHANGED <<parseVars, runVars, raisedError, options, sigVars, loopVars,
                   onceVars, childVars, diskVars, stdout, histVars, result>>

\* an exception nothing catches leaves runCommand and main; the interpreter
\* prints the traceback and ends with status 1
uncaughtException ==
    /\ pc = "raised"
    /\ exitStatus' = Code(1)
    /\ pc' = "exited"
    /\ UNCHANGED <<parseVars, runVars, raisedError, options, sigVars, loopVars,
                   onceVars, childVars, diskVars, stdout, histVars, result>>

Next ==
    \/ handler
    \/ ChildExit
    \/ CommandOptions
    \/ main
    \/ runCommandStart
    \/ whileCondition
    \/ createDirectory
    \/ openStatsFile
    \/ composeCommand
    \/ debugEcho
    \/ runSubprocessCommand
    \/ pollCondition
    \/ poll
    \/ gatherSystemStats
    \/ sleep
    \/ closeStatsFile
    \/ signalCheck
    \/ bookkeeping
    \/ afterLoop
    \/ scriptEnd
    \/ uncaughtException

\* the campaigns, with a resource probe that always answers
Spec == Init /\ [][Next]_vars

\* the short command lines
SpecParse == InitParse /\ [][Next]_vars

\* the campaigns, with a resource probe that may find the child gone
NextProbe == Next \/ gatherSystemStatsRaises

SpecProbe == Init /\ [][NextProbe]_vars

\* the steps of the main thread: everything but the delivery of a signal
\* and the termination of the child
Supervisor ==
    \/ CommandOptions
    \/ main
    \/ runCommandStart
    \/ whileCondition
    \/ createDirectory
    \/ openStatsFile
    \/ composeCommand
    \/ debugEcho
    \/ runSubprocessCommand
    \/ pollCondition
    \/ poll
    \/ gatherSystemStats
    \/ sleep
    \/ closeStatsFile
    \/ signalCheck
    \/ bookkeeping
    \/ afterLoop
    \/ scriptEnd
    \/ uncaughtException

\* the campaigns, when the interpreter keeps running the main thread and
\* every child terminates at some time
SpecFair == Spec /\ WF_vars(Supervisor) /\ WF_vars(ChildExit)

\* the campaigns, with directories that may fail to be created
NextDirs == Next \/ createRootDirectoriesRaises \/ createDirectoryRaises

SpecDirs == Init /\ [][NextDirs]_vars

\* ======================== properties ======================================

\* runCommand has returned its code to main (a failed parse returns before)
Returned == pc = "returned" /\ parseSuccessful

\* the largest occurrence count of the tally
MaxAmount(codes) ==
    CHOOSE m \in {codes[i].amount : i \in 1..Len(codes)} :
        \A j \in 1..Len(codes) : codes[j].amount <= m

\* positions of the tally whose count is the largest
Leaders(codes) == {i \in 1..Len(codes) : codes[i].amount = MaxAmount(codes)}

\* number of runs of a sequence of run results that returned key
Occurrences(results, key) ==
    Cardinality({i \in 1..Len(results) : results[i] = key})

\* the tally and the failure counter are those of exactly these run results
BookkeepingOf(results) ==
    /\ \A i \in 1..Len(returnCodes) :
         returnCodes[i].amount = Occurrences(results, returnCodes[i].key)
    /\ \A i \in 1..Len(results) : HasKey(returnCodes, results[i])
    /\ failures = Cardinality({i \in 1..Len(results) : results[i] # Code(0)})

\* C1: whenever runCommand returns with a non-empty tally, the code it
\* returns is a key of the tally and no entry of the tally has a strictly
\* greater occurrence count than the returned one.
C1_ReturnsMostFrequent ==
    (Returned /\ returnCodes # <<>>) =>
        \E i \in 1..Len(returnCodes) :
            /\ returnCodes[i].key = result
            /\ \A j \in 1..Len(returnCodes) :
                 returnCodes[j].amount <= returnCodes[i].amount

\* C1 witness: runCommand returned a code that is strictly more frequent
\* than a code inserted after it
C1_Witness ==
    /\ Returned
    /\ Len(returnCodes) >= 2
    /\ returnCodes[1].key = result
    /\ returnCodes[1].amount > returnCodes[2].amount

\* C2 as claimed: among the codes sharing the largest count, runCommand
\* returns the one inserted into the tally first.
C2_FirstInsertedWinsTie ==
    (Returned /\ returnCodes # <<>>) =>
        \E i \in Leaders(returnCodes) :
            /\ returnCodes[i].key = result
            /\ \A j \in Leaders(returnCodes) : i <= j

\* C2 amended: among the codes sharing the largest count, runCommand
\* returns the one inserted into the tally last.
C2_LastInsertedWinsTie ==
    (Returned /\ returnCodes # <<>>) =>
        \E i \in Leaders(returnCodes) :
            /\ returnCodes[i].key = result
            /\ \A j \in Leaders(returnCodes) : j <= i

\* C2 witness: runCommand returned from a tally in which two codes share
\* the largest count
C2_Witness ==
    /\ Returned
    /\ Cardinality(Leaders(returnCodes)) >= 2
    /\ result = returnCodes[Len(returnCodes)].key

\* C3 as claimed: when the script ran with a valid command line and
\* runCommand returned, the exit status of the process is the returned code.
C3_ExitStatusIsReturnedCode ==
    (pc = "exited" /\ parseSuccessful /\ result # None) =>
        exitStatus = result

\* the run that was in flight was seen cancelled at lines 317-320
Cancelled == "signal" \in stdout

\* the campaign was left by the exception of line 465
Raised == pc = "raised" \/ exitStatus = Code(1)

\* C4: a run during which the cancellation flag is observed leaves the
\* bookkeeping alone: once the run is seen cancelled (or the supervisor
\* raised), the tally and the failure counter are those of the runs before
\* it, and the tally never holds an entry for None.
C4_CancelledRunNotCounted ==
    /\ \A i \in 1..Len(returnCodes) : returnCodes[i].key # None
    /\ Cancelled =>
         /\ runResults # <<>>
         /\ BookkeepingOf(SubSeq(runResults, 1, Len(runResults) - 1))
    /\ Raised => BookkeepingOf(runResults)

\* C4 witness: the second run was cancelled while its child was running,
\* after a first run that was counted
C4_Witness ==
    /\ Returned
    /\ Cancelled
    /\ Len(runResults) = 2
    /\ runResults[2] = None
    /\ returnCodes # <<>>

\* C5 as claimed: once the cancellation flag is true, no run directory is
\* created and no child process is launched.
C5_NothingStartsAfterSignal ==
    [][receivedSignal => (launched' = launched /\ runDirs' \subseteq runDirs)]_vars

\* C5 amended: once the cancellation flag is true, the while condition lets
\* no further iteration in; a run directory created or a child launched
\* after that moment belongs to the one iteration that had already passed
\* the while condition.
C5_NoIterationAdmittedAfterSignal ==
    [][/\ receivedSignal => admitted' = admitted
       /\ launched' # launched => launched' = admitted
       /\ runDirs' \ runDirs \subseteq {admitted}]_vars

\* C5 witness: the while condition refused an iteration because of the
\* flag, with runs of the campaign still to do
C5_Witness ==
    /\ pc = "afterLoop"
    /\ receivedSignal
    /\ admitted >= 1
    /\ currentRunCount < totalRunCount
    /\ stdout \cap {"signal", "failedCount"} = {}

\* C6 as claimed: when the supervisor returns without an exit code, because
\* the flag was seen while the child was running, the child is no longer
\* running.
C6_ChildKilledOnCancel ==
    (pc = "signalCheck" /\ currentCode = None) => child # "running"

\* the failure threshold K, when one is configured
K == failedCount[1]

\* C7: with a failure threshold K the failure counter never exceeds K; once
\* it is K the loop has been left with the failed-count notice and no run
\* is launched any more; the notice is printed on that path only; and the
\* code returned is a most frequent code of a tally that counts exactly the
\* runs completed so far.
C7_FailedCountStopsCampaign ==
    /\ failedCount # None =>
         /\ failures <= K
         /\ failures = K =>
              /\ pc \in {"afterLoop", "returned", "exited"}
              /\ "failedCount" \in stdout
    /\ "failedCount" \in stdout =>
         /\ failedCount # None
         /\ failures = K
         /\ launched = Len(runResults)
         /\ BookkeepingOf(runResults)
         /\ pc = "returned" => result \in
              {returnCodes[i].key : i \in Leaders(returnCodes)}

\* C7 witness: the campaign returned after the threshold was reached with
\* runs left to do
C7_Witness ==
    /\ Returned
    /\ "failedCount" \in stdout
    /\ failures = 2
    /\ launched < totalRunCount

InLoop ==
    {"while", "createDirectory", "openStatsFile", "composeCommand",
     "debugEcho", "runSubprocessCommand",
     "pollCondition", "poll", "gatherSystemStats", "sleep", "closeStatsFile",
     "signalCheck", "bookkeeping", "afterLoop"}

\* C9 as claimed: with logging active the root directory exists during the
\* whole loop, and once the campaign has ended (by its last run, by the
\* threshold or by cancellation) the root is gone iff failures = 0.
C9_RootDeletedIffNoFailures ==
    (parseSuccessful /\ setupLogging) =>
        /\ pc \in InLoop => rootExists
        /\ pc \in {"returned", "exited"} => (~rootExists <=> failures = 0)

\* C10 as claimed: with logging active, when the campaign returns with
\* failures > 0 the run directories left are exactly those of the runs that
\* ended with a non-zero exit code.
C10_OnlyFailedRunsRetained ==
    (Returned /\ setupLogging /\ failures > 0) =>
        runDirs = {i \in 1..Len(runResults) :
                     runResults[i] # None /\ runResults[i] # Code(0)}

\* ---- C11 ---------------------------------------------------------------

\* one of the three trace flags was given before the wrapped command
AnyTraceFlag == activeOptions \cap {SYS_TRACE, CALL_TRACE, LOG_TRACE} # {}

\* the positions of runCommand that follow the creation of the root
AfterRootCreation == InLoop \cup {"afterLoop"}

\* the positions of a run between the creation of its directory and the
\* bookkeeping that may prune it
InRun ==
    {"openStatsFile", "composeCommand", "debugEcho", "runSubprocessCommand",
     "pollCondition", "poll", "gatherSystemStats", "sleep", "closeStatsFile",
     "signalCheck", "bookkeeping"}

\* C11: with none of the three trace flags no root directory and no run
\* directory ever exists, whatever the runs' exit codes; and logging is
\* active exactly when one of the three flags is set: with a flag the root
\* exists throughout the loop and the directory of the current run exists
\* throughout the run.
C11_DirectoriesIffTraceFlag ==
    (pc \notin {"CommandOptions", "main"} /\ parseSuccessful) =>
        /\ setupLogging <=> AnyTraceFlag
        /\ ~AnyTraceFlag => (~rootExists /\ runDirs = {})
        /\ (AnyTraceFlag /\ pc \in InLoop) => rootExists
        /\ (AnyTraceFlag /\ pc \in InRun) => currentRunCount + 1 \in runDirs

\* a campaign without trace flags, in debug mode, has returned after two
\* failed runs and there is no directory
C11_Witness ==
    /\ Returned
    /\ ~AnyTraceFlag
    /\ DEBUG \in activeOptions
    /\ failures >= 2
    /\ ~rootExists
    /\ runDirs = {}

\* ---- the command line as the claims on parsing read it --------------------

\* getParsedCommand, lines 95-99
getParsedCommand ==
    IF ~parseSuccessful
    THEN None
    ELSE <<activeOptions, activeOptionsWithVariables, wrappedCommand>>

\* the command line has been parsed
Parsed == pc # "CommandOptions"

\* the positions of a where a token is read as an option: from position i
\* on, an integer-valued option is followed by its value, and the first
\* token that is no option ends the options
RECURSIVE OptionPositions(_, _)
OptionPositions(a, i) ==
    IF i > Len(a)
    THEN {}
    ELSE IF a[i] \in optionsWithVariables
    THEN {i} \cup OptionPositions(a, i + 2)
    ELSE IF a[i] \in allOptions
    THEN {i} \cup OptionPositions(a, i + 1)
    ELSE {}

\* the position of the first token that is neither an option nor the value
\* of an integer-valued option, or Len(a) + 1 when there is none
RECURSIVE FirstNonOption(_, _)
FirstNonOption(a, i) ==
    IF i > Len(a)
    THEN Len(a) + 1
    ELSE IF a[i] \in optionsWithVariables
    THEN FirstNonOption(a, i + 2)
    ELSE IF a[i] \in allOptions
    THEN FirstNonOption(a, i + 1)
    ELSE i

\* the token after position p is an integer of at least 1
ValidValue(a, p) ==
    /\ p + 1 <= Len(a)
    /\ isnumeric(a[p + 1])
    /\ int(a[p + 1]) >= 1

\* the positions, among those given, of the integer-valued options whose
\* value is missing, not numeric or less than 1
BadValues(a, positions) ==
    {p \in positions : a[p] \in optionsWithVariables /\ ~ValidValue(a, p)}

\* the message the documentation gives for the bad value after position p
BadValueMessage(a, p) ==
    IF p + 1 <= Len(a) /\ isnumeric(a[p + 1])
    THEN Message("LARGER_INT_MSG", <<a[p + 1], a[p]>>)
    ELSE Message("MISSING_INT_MSG", <<a[p]>>)

\* nothing of a run has happened
NoRun ==
    /\ launched = 0
    /\ popenCommands = <<>>
    /\ admitted = 0
    /\ pc \in {"CommandOptions", "main", "returned", "exited"}

\* ---- C12 ---------------------------------------------------------------

\* C12: a missing wrapped command is an error found before any run: a
\* successful parse has a non-empty wrapped command, and a command line in
\* which every token after the file name is an option or the valid value of
\* one (the file name alone included) fails with the 'No command to be
\* wrapped' message and launches nothing.
C12_MissingCommandIsError ==
    Parsed =>
        /\ parseSuccessful => (wrappedCommand # None /\ Len(wrappedCommand) >= 1)
        /\ ( /\ HELP \notin {args[k] : k \in 1..Len(args)}
             /\ FirstNonOption(args, 2) = Len(args) + 1
             /\ BadValues(args, OptionPositions(args, 2)) = {} ) =>
               /\ ~parseSuccessful
               /\ stderr = <<Message("NO_WRAPPED_COMMAND_MSG", <<>>)>>
               /\ NoRun

\* ---- C13 ---------------------------------------------------------------

\* the positions before position j where an option is read
OptionsBefore(a, j) == {p \in OptionPositions(a, 2) : p < j}

\* C13: after a successful parse activeOptions holds the flags read before
\* the wrapped command, activeOptionsWithVariables holds the integer-valued
\* options read before it, each with the integer of its last occurrence,
\* and the wrapped command is the suffix of the command line from the first
\* token that is neither an option nor the value of one; no token of that
\* suffix becomes an option.
C13_ParsePartitionsArgv ==
    (Parsed /\ parseSuccessful /\ Len(args) > 1) =>
        LET j == FirstNonOption(args, 2)
            before == OptionsBefore(args, j)
            valued == {p \in before : args[p] \in optionsWithVariables}
        IN  /\ j <= Len(args)
            /\ wrappedCommand = [k \in 1..(Len(args) - j + 1) |-> args[j + k - 1]]
            /\ activeOptions = {args[p] : p \in before \ valued}
            /\ DOMAIN activeOptionsWithVariables = {args[p] : p \in valued}
            /\ \A p \in valued :
                 (\A q \in valued : args[q] = args[p] => q <= p) =>
                     /\ isnumeric(args[p + 1])
                     /\ activeOptionsWithVariables[args[p]] = int(args[p + 1])
            /\ getParsedCommand =
                 <<activeOptions, activeOptionsWithVariables, wrappedCommand>>

\* a flag, then a wrapped command that holds a token which is a runner
\* option, and the campaign has returned
C13_Witness ==
    /\ Returned
    /\ activeOptions # {}
    /\ wrappedCommand # None
    /\ \E k \in 1..Len(wrappedCommand) : wrappedCommand[k] \in allOptions

\* ---- C14 ---------------------------------------------------------------

\* the least element of a non-empty set of positions
Least(positions) == CHOOSE p \in positions : \A q \in positions : p <= q

\* C14 as stated: whenever an integer-valued option read before the wrapped
\* command is followed by nothing, by a non-numeric token or by an integer
\* less than 1, parsing fails with the message for that option,
\* getParsedCommand returns None and no run is launched.
C14_BadValueFails ==
    LET j == FirstNonOption(args, 2)
        bad == BadValues(args, OptionsBefore(args, j))
    IN  (Parsed /\ bad # {}) =>
            /\ ~parseSuccessful
            /\ \E m \in 1..Len(stderr) : stderr[m] = BadValueMessage(args, Least(bad))
            /\ getParsedCommand = None
            /\ NoRun

\* C14, amended: without the help flag, when an option read before the
\* wrapped command is integer-valued and followed by nothing, by a
\* non-numeric token or by an integer less than 1, parsing fails with the
\* message for the first such option and nothing else, getParsedCommand
\* returns None and no run is launched.
C14_BadValueOfReadOptionFails ==
    LET j == FirstNonOption(args, 2)
        bad == BadValues(args, OptionsBefore(args, j))
    IN  ( /\ Parsed
          /\ HELP \notin {args[k] : k \in 1..Len(args)}
          /\ bad # {} ) =>
            /\ ~parseSuccessful
            /\ stderr = <<BadValueMessage(args, Least(bad))>>
            /\ getParsedCommand = None
            /\ wrappedCommand = None
            /\ NoRun

\* a flag, then -c followed by 0: the program has ended with the
\* greater-than-0 message
C14_Witness ==
    /\ pc = "exited"
    /\ Len(args) = 4
    /\ args[2] = DEBUG
    /\ args[3] \in optionsWithVariables
    /\ args[4] = <<"0">>
    /\ stderr = <<Message("LARGER_INT_MSG", <<args[4], args[3]>>)>>

\* ---- C15 ---------------------------------------------------------------

\* C15: with the help flag anywhere in the command line parsing fails, only
\* the usage and the example are written, no option is recorded or
\* validated and no run is launched.
C15_HelpShortCircuits ==
    (Parsed /\ HELP \in {args[k] : k \in 1..Len(args)}) =>
        /\ ~parseSuccessful
        /\ stderr = <<Message("HELP_MESSAGE", <<>>), Message("HELP_EXAMPLE", <<>>)>>
        /\ activeOptions = {}
        /\ activeOptionsWithVariables = <<>>
        /\ wrappedCommand = None
        /\ getParsedCommand = None
        /\ NoRun

\* the help flag is the last token, after an integer-valued option with a
\* bad value or after a token that is no option, and the program has ended
C15_Witness ==
    /\ pc = "exited"
    /\ Len(args) = 4
    /\ args[4] = HELP
    /\ \/ args[2] \in optionsWithVariables /\ args[3] = <<"0">>
       \/ args[2] = UnknownOption
    /\ Len(stderr) = 2

\* ---- C16 ---------------------------------------------------------------

\* the positions of the tokens that are no option and not the numeric token
\* after an integer-valued option
NotRecognized(a) ==
    {k \in 2..Len(a) :
        /\ a[k] \notin allOptions
        /\ ~(a[k - 1] \in optionsWithVariables /\ isnumeric(a[k]))}

\* a token starts with '-'
Dashed(token) == Len(token) >= 1 /\ token[1] = "-"

\* C16 as stated: without the help flag, when the first token that is no
\* recognized option and no consumed integer starts with '-', parsing fails
\* with the unrecognized-option message for that token and the wrapped
\* command is not set.
C16_FirstUnrecognizedDashFails ==
    ( /\ Parsed
      /\ HELP \notin {args[k] : k \in 1..Len(args)}
      /\ NotRecognized(args) # {}
      /\ Dashed(args[Least(NotRecognized(args))]) ) =>
        /\ ~parseSuccessful
        /\ stderr = <<Message("UNRECOGNIZED_OPTION_MSG",
                              <<args[Least(NotRecognized(args))]>>)>>
        /\ wrappedCommand = None

\* C16, amended: without the help flag, when every integer-valued option
\* read so far has a valid value and the token read next, where an option
\* or the wrapped command may begin, is no recognized option and starts
\* with '-', parsing fails with the unrecognized-option message for that
\* token and nothing else, the wrapped command is not set and no run is
\* launched.
C16_UnrecognizedOptionFails ==
    LET j == FirstNonOption(args, 2)
    IN  ( /\ Parsed
          /\ HELP \notin {args[k] : k \in 1..Len(args)}
          /\ j <= Len(args)
          /\ BadValues(args, OptionsBefore(args, j)) = {}
          /\ Dashed(args[j]) ) =>
            /\ ~parseSuccessful
            /\ stderr = <<Message("UNRECOGNIZED_OPTION_MSG", <<args[j]>>)>>
            /\ wrappedCommand = None
            /\ getParsedCommand = None
            /\ NoRun

\* -c with a valid value, then a token with a dash that is no option: the
\* program has ended with the message for that token
C16_Witness ==
    /\ pc = "exited"
    /\ Len(args) = 4
    /\ args[2] \in optionsWithVariables
    /\ args[3] = <<"2">>
    /\ args[4] = UnknownOption
    /\ stderr = <<Message("UNRECOGNIZED_OPTION_MSG", <<args[4]>>)>>

\* ---- C17 ---------------------------------------------------------------

\* the characters of the tokens, one blank before every token but the first
RECURSIVE Blanked(_)
Blanked(tokens) ==
    IF Len(tokens) = 0
    THEN <<>>
    ELSE IF Len(tokens) = 1
    THEN tokens[1]
    ELSE Blanked(SubSeq(tokens, 1, Len(tokens) - 1)) \o <<" ">> \o tokens[Len(tokens)]

\* the directory of run n, as the documentation names it
RunDir(n) == <<"runnerLogs", "/", "%y-%m-%d_%H:%M:%S", "/">> \o str(n)

\* the command line of run n: the tracer writing to <runDir>/callTrace.txt
\* iff call tracing is asked for, the user's tokens, the duplication to
\* <runDir>/logTrace.txt iff log tracing is asked for
ExpectedCommand(n) ==
    (IF CALL_TRACE \in activeOptions
     THEN <<"strace", " ", "-o", " ">> \o RunDir(n) \o <<"/", "callTrace.txt", " ">>
     ELSE <<>>)
    \o Blanked(wrappedCommand)
    \o (IF LOG_TRACE \in activeOptions
        THEN <<" ", "2>&1", " ", "|", " ", "tee", " ">> \o RunDir(n)
             \o <<"/", "logTrace.txt", " ", ";(exit ${PIPESTATUS})">>
        ELSE <<>>)

\* C17: the command line of every launch is the expected one, and in debug
\* mode exactly that line is echoed before the launch, once per launch;
\* without debug mode nothing is echoed.
C17_ComposedCommand ==
    /\ \A n \in 1..Len(popenCommands) : popenCommands[n] = ExpectedCommand(n)
    /\ Len(popenCommands) = launched
    /\ IF DEBUG \in activeOptions
       THEN /\ \A n \in 1..Len(echoed) : echoed[n] = ExpectedCommand(n)
            /\ Len(echoed) =
                 IF pc = "runSubprocessCommand"
                 THEN Len(popenCommands) + 1
                 ELSE Len(popenCommands)
       ELSE echoed = <<>>

\* two launches with call tracing, log tracing and debug mode all on
C17_Witness ==
    /\ activeOptions = {CALL_TRACE, LOG_TRACE, DEBUG}
    /\ Len(popenCommands) = 2
    /\ Len(echoed) = 2
    /\ Len(wrappedCommand) = 3

\* ---- C18 ---------------------------------------------------------------

\* C18: a launched run ends in one of two ways, whenever the flag is set:
\* with the exit status of the child, which has terminated, or with no code
\* after a cancellation; it never ends otherwise.
C18_RunEndsExitedOrKilled ==
    /\ launched >= 1 => pc # "raised"
    /\ pc = "signalCheck" =>
         \/ /\ currentCode # None
            /\ currentCode = childCode
            /\ child = "reaped"
         \/ /\ currentCode = None
            /\ receivedSignal
            /\ child # "reaped"

\* ---- C19 ---------------------------------------------------------------

\* the positions outside __runCommandOnce that follow a run
AfterRun ==
    {"signalCheck", "bookkeeping", "while", "createDirectory", "afterLoop",
     "returned", "raised", "exited"}

\* C19: the sys-trace file is closed whichever way a run is left: child
\* exit, cancellation, or a failure raised while sampling or polling.
C19_StatsFileClosed == pc \in AfterRun => ~statsFileOpen

\* ---- C20 ---------------------------------------------------------------

\* C20: when the child has gone between the liveness check and the sample
\* of the same tick, the sample is skipped and the run goes on to the next
\* liveness check without an error.
C20_SampleSkippedWhenChildGone ==
    [][(pc = "gatherSystemStats" /\ pc' # pc /\ sysTrace /\ child = "exited") =>
          (pc' = "sleep" /\ ~sampled' /\ raisedError' = None)]_vars

\* ---- C21 ---------------------------------------------------------------

\* C21 as stated: once the cancellation flag is true, no resource sample is
\* taken and no poll-interval sleep is started.
C21_NoSampleNoSleepAfterSignal ==
    [][receivedSignal => ~(pc = "gatherSystemStats" /\ pc' = "sleep")]_vars

\* C21, amended: once the cancellation flag is true, the condition of the
\* polling loop lets no further tick in and the loop is left at its next
\* evaluation; a sample or a sleep after that moment belongs to the one
\* tick that had already passed the condition (a tick is entered through
\* the condition only, and its steps follow one another).
C21_NoTickAdmittedAfterSignal ==
    [][/\ (receivedSignal /\ pc = "pollCondition" /\ pc' # pc) =>
              pc' = "closeStatsFile"
       /\ (pc' = "poll" /\ pc # "poll") =>
              (pc = "pollCondition" /\ ~receivedSignal)
       /\ (pc' = "gatherSystemStats" /\ pc # "gatherSystemStats") =>
              pc = "poll"
       /\ (pc' = "sleep" /\ pc # "sleep") => pc = "gatherSystemStats"]_vars

\* the polling loop was left on the flag, after a tick with a sample, while
\* the child was running
C21_Witness ==
    /\ pc = "closeStatsFile"
    /\ receivedSignal
    /\ child = "running"
    /\ exitCodeBound
    /\ sampled

\* ---- C22 ---------------------------------------------------------------

\* C22: a tick is liveness check, then sample, then sleep: a sample is
\* taken only right after a liveness check that saw the child alive, with
\* sys tracing on; a liveness check that saw the child terminated is
\* followed by the end of the loop; the sleep is entered from the sample
\* step only, and the next liveness check comes after it.
C22_TickOrder ==
    [][/\ (sampled' /\ ~sampled) =>
              /\ pc = "gatherSystemStats"
              /\ sysTrace
              /\ exitCodeBound
              /\ exitCode = None
       /\ (pc = "poll" /\ pc' # pc) =>
              IF exitCode' # None
              THEN pc' = "closeStatsFile"
              ELSE pc' = "gatherSystemStats"
       /\ (pc = "gatherSystemStats" /\ pc' # pc) =>
              /\ pc' = "sleep"
              /\ sampled' = sysTrace
       /\ (pc' = "gatherSystemStats" /\ pc' # pc) =>
              (pc = "poll" /\ exitCode' = None)
       /\ (pc' = "sleep" /\ pc' # pc) => pc = "gatherSystemStats"
       /\ (pc = "sleep" /\ pc' # pc) => (pc' = "pollCondition" /\ sampled' = sampled)
       /\ (pc' = "poll" /\ pc' # pc) => pc = "pollCondition"]_vars

\* with sys tracing on, a liveness check saw the child terminated and the
\* loop was left without a sample in that tick
C22_Witness ==
    /\ pc = "closeStatsFile"
    /\ sysTrace
    /\ ~sampled
    /\ exitCode # None
    /\ child = "reaped"
    /\ ~receivedSignal

\* ---- C23 ---------------------------------------------------------------

\* C23: with logging active, a directory that cannot be created ends the
\* campaign by the error: runCommand returns nothing, the only children
\* launched are those of the runs completed before, and a run is under way
\* only with the root and its own directory in place.
C23_DirectoryFailureIsFatal ==
    /\ raisedError = Exception("OSError") =>
         /\ AnyTraceFlag
         /\ pc \in {"raised", "exited"}
         /\ result = None
         /\ exitStatus \in {None, Code(1)}
         /\ launched = currentRunCount
         /\ child # "running"
         /\ currentRunCount + 1 \notin runDirs
    /\ (Parsed /\ parseSuccessful /\ AnyTraceFlag /\ pc \in InRun) =>
         /\ rootExists
         /\ currentRunCount + 1 \in runDirs

\* the directory of the second run could not be created: the campaign has
\* ended by the error after one run
C23_Witness ==
    /\ raisedError = Exception("OSError")
    /\ pc = "exited"
    /\ rootExists
    /\ launched = 1
    /\ totalRunCount >= 2

\* ---- C24 ---------------------------------------------------------------

\* the campaign loop is between two iterations, or has been left
BetweenIterations ==
    /\ Parsed
    /\ parseSuccessful
    /\ pc \in {"while", "afterLoop", "returned"}

\* the results of the runs that completed without cancellation: all the
\* runs the supervisor returned from, but the last when it was seen
\* cancelled
CompletedRuns ==
    IF Cancelled
    THEN SubSeq(runResults, 1, Len(runResults) - 1)
    ELSE runResults

\* the sum of the occurrence counts of those of the first n entries whose
\* key is one of keys
RECURSIVE SumOfCounts(_, _, _)
SumOfCounts(codes, n, keys) ==
    IF n = 0
    THEN 0
    ELSE SumOfCounts(codes, n - 1, keys)
         + (IF codes[n].key \in keys THEN codes[n].amount ELSE 0)

\* C24: between iterations the occurrence counts of the tally add up to the
\* number of runs completed without cancellation, the failure counter is
\* the sum of the counts of the non-zero codes, and the count of code 0 is
\* the number of succeeded runs.
C24_TallyAccounts ==
    BetweenIterations =>
        LET n == Len(returnCodes)
            AnyKey == {returnCodes[i].key : i \in 1..n}
            NonZero == AnyKey \ {Code(0)}
            Zero == {Code(0)}
        IN  /\ SumOfCounts(returnCodes, n, AnyKey) = Len(CompletedRuns)
            /\ failures = SumOfCounts(returnCodes, n, NonZero)
            /\ SumOfCounts(returnCodes, n, Zero) =
                 Cardinality({i \in 1..Len(CompletedRuns) :
                                 CompletedRuns[i] = Code(0)})
            /\ \A i, j \in 1..n :
                 returnCodes[i].key = returnCodes[j].key => i = j

\* between two iterations, after three runs of which two succeeded and one
\* failed
C24_Witness ==
    /\ pc = "while"
    /\ Len(runResults) = 3
    /\ Len(returnCodes) = 2
    /\ failures = 1
    /\ \E i \in 1..2 : returnCodes[i] = [key |-> Code(0), amount |-> 2]

\* ---- C25 ---------------------------------------------------------------

\* the campaign has ended, by a return of runCommand or by an error
CampaignEnded ==
    /\ Parsed
    /\ parseSuccessful
    /\ pc \in {"returned", "raised", "exited"}

\* C25: a campaign that ends with an empty tally, because the cancellation
\* was observed before any run completed its bookkeeping, has returned 0
\* from runCommand and has no root directory left.
C25_EmptyTallyReturnsZero ==
    (CampaignEnded /\ returnCodes = <<>>) =>
        /\ receivedSignal
        /\ result = Code(0)
        /\ ~rootExists
        /\ runDirs = {}

\* ---- C26 ---------------------------------------------------------------

\* C26: when the main thread keeps running and every child terminates at
\* some time, a campaign that has started comes to the return of runCommand
\* with a code.
C26_CampaignReturnsCode ==
    (pc = "runCommand") ~> (pc = "returned" /\ result # None)

====
